---- MODULE Spec2Model ----
(***************************************************************************)
(* Decode-phase orchestration of the XTTS audio-token generator:           *)
(* XttsGPT.forward / XttsGPT.compute_logits and GPT2Model.forward of       *)
(* src/fasterTTS/models/xttsv2/components/vllm_mm_gpt.py.                  *)
(*                                                                         *)
(* A tensor is a record [shape, data]: shape is the torch shape, data the  *)
(* rows of the tensor in row-major order (one entry per index of all but   *)
(* the last dimension; for an id tensor one entry per element).  A row of  *)
(* a conditioning tensor is <<"cond", request, k>>; a token row after the  *)
(* sum of token and positional embedding is <<"tok", token, position>>.    *)
(***************************************************************************)
EXTENDS Integers, Sequences, FiniteSets, TLC

\* ---------------------------------------------------------------- bounds
MaxReq == 2
MaxCond == 3
MaxAudio == 2
NumLayers == 2

\* ------------------------------------------------------ program constants
PAD_FILLER_ID == 1
START_AUDIO_TOKEN_ID == 1024

HiddenDims == {2, 3}
SentinelSet == {PAD_FILLER_ID, START_AUDIO_TOKEN_ID}

\* ------------------------------------------------------------- utilities
Min(a, b) == IF a < b THEN a ELSE b
Max(a, b) == IF a > b THEN a ELSE b

RECURSIVE SumSeq(_)
SumSeq(s) == IF s = <<>> THEN 0 ELSE Head(s) + SumSeq(Tail(s))

RECURSIVE ProdSeq(_)
ProdSeq(s) == IF s = <<>> THEN 1 ELSE Head(s) * ProdSeq(Tail(s))

RECURSIVE ConcatAll(_)
ConcatAll(ss) == IF ss = <<>> THEN <<>> ELSE Head(ss) \o ConcatAll(Tail(ss))

Repeat(x, n) == [k \in 1..n |-> x]

Range(f) == {f[k] : k \in DOMAIN f}
Last(s) == s[Len(s)]
ButLast(s) == SubSeq(s, 1, Len(s) - 1)

\* Python s[start:end] for non-negative start and end: out-of-range bounds are
\* clipped to len(s), an empty range gives the empty sequence.
PySlice(s, start, end) ==
    LET lo == Min(start, Len(s))
        hi == Min(end, Len(s))
    IN  IF lo >= hi THEN <<>> ELSE SubSeq(s, lo + 1, hi)

\* ---------------------------------------------------------- tensor algebra
Tensor(shape, data) == [shape |-> shape, data |-> data]
NoTensor == Tensor(<<>>, <<>>)

\* rows of a tensor of embeddings: every index of all dimensions but the last
NumRows(shape) == ProdSeq(ButLast(shape))
\* rows under one index of dimension 0
RowsPerUnit(shape) == IF Len(shape) <= 2 THEN 1 ELSE ProdSeq(SubSeq(shape, 2, Len(shape) - 1))

\* x.squeeze(0)
Squeeze0(t) == IF Len(t.shape) >= 1 /\ t.shape[1] = 1 THEN Tensor(Tail(t.shape), t.data) ELSE t

\* x.view(-1, d) of a tensor of embeddings whose last dimension is d
View2D(t) == Tensor(<<NumRows(t.shape), Last(t.shape)>>, t.data)

PadLeft(shape, rank) == Repeat(1, rank - Len(shape)) \o shape

\* shape of a + b under torch broadcasting (operands are broadcastable here)
BroadcastShape(s1, s2) ==
    LET rank == Max(Len(s1), Len(s2))
        p1 == PadLeft(s1, rank)
        p2 == PadLeft(s2, rank)
    IN  [d \in 1..rank |-> IF p1[d] = 1 THEN p2[d] ELSE p1[d]]

\* audio_inputs_embeds + position_embeds: row k of the sum is the k-th token row
\* plus the k-th position row, a one-row operand being broadcast over the other
AddEmbeds(tok, pos) ==
    LET shape == BroadcastShape(tok.shape, pos.shape)
        n == NumRows(shape)
        nt == Len(tok.data)
        np == Len(pos.data)
    IN  Tensor(shape, [k \in 1..n |->
            <<"tok", tok.data[IF nt = 1 THEN 1 ELSE k], pos.data[IF np = 1 THEN 1 ELSE k]>>])

\* torch.cat(tensors, dim=0): defined for a non-empty list of tensors of one rank
\* that agree on every dimension but the first
CatOk(ts) ==
    /\ Len(ts) >= 1
    /\ \A k \in 1..Len(ts) : /\ Len(ts[k].shape) = Len(ts[1].shape)
                             /\ Tail(ts[k].shape) = Tail(ts[1].shape)
Cat(ts) ==
    Tensor(<<SumSeq([k \in 1..Len(ts) |-> ts[k].shape[1]])>> \o Tail(ts[1].shape),
           ConcatAll([k \in 1..Len(ts) |-> ts[k].data]))

\* t.split(sizes, dim=0): the sizes must be non-negative and sum to t.shape[0]
SplitOk(t, sizes) ==
    /\ \A k \in 1..Len(sizes) : sizes[k] >= 0
    /\ SumSeq(sizes) = t.shape[1]
SplitSizes(t, sizes) ==
    LET per == RowsPerUnit(t.shape)
    IN  [k \in 1..Len(sizes) |->
            Tensor(<<sizes[k]>> \o Tail(t.shape),
                   SubSeq(t.data,
                          per * SumSeq(SubSeq(sizes, 1, k - 1)) + 1,
                          per * SumSeq(SubSeq(sizes, 1, k))))]

\* ------------------------------------------------- LearnedPositionEmbeddings
\* forward(x) with relative = False: emb(arange(0, x.shape[1]))
WpeForward(x_shape, H) ==
    LET sl == x_shape[2]
    IN  Tensor(<<sl, H>>, [k \in 1..sl |-> k - 1])

\* get_fixed_embedding(ind, dev) for a 1-D index tensor: one row per index when
\* there are several, a [1, 1, model_dim] tensor for one index; an empty index
\* tensor cannot be turned into the scalar of torch.tensor([ind]) and raises
GetFixedEmbeddingOk(ind) == ind.shape[1] >= 1
GetFixedEmbedding(ind, H) ==
    IF ind.shape[1] > 1
    THEN Tensor(<<ind.shape[1], H>>, ind.data)
    ELSE Tensor(<<1, 1, H>>, ind.data)

\* self.wte(input_ids): one embedding row per id
Wte(ids, H) == Tensor(ids.shape \o <<H>>, ids.data)

\* ------------------------------------------------------------ XttsGPT.forward
\* the sentinel test without the length test
IsFirstIterationAnyLength(ids) == \A k \in 1..Len(ids) : ids[k] \in SentinelSet

\* len(input_ids) > 1 and torch.isin(input_ids, [1, 1024]).all()
IsFirstIteration(ids) ==
    /\ Len(ids) > 1
    /\ \A k \in 1..Len(ids) : ids[k] \in SentinelSet

\* the flag is a Python bool (kind "bool", one value) or a tensor of values
check_is_logits_only_mode(flag) ==
    IF flag.kind = "bool" THEN flag.vals[1]
    ELSE IF Len(flag.vals) = 1 THEN flag.vals[1]
    ELSE \E k \in 1..Len(flag.vals) : flag.vals[k]

\* ------------------------------------------- GPT2Model.forward, offset table
\* the ends taken per request, not accumulated over the batch
CumulativeEndsLocal(ending_ids, n) == SubSeq(ending_ids, 1, n)

RECURSIVE CumulativeEnds(_, _)
CumulativeEnds(ending_ids, n) ==
    IF n = 1 THEN <<ending_ids[1]>>
    ELSE LET prev == CumulativeEnds(ending_ids, n - 1)
         IN  Append(prev, prev[n - 1] + ending_ids[n])

\* the starts taken per request, the previous request's end not added
CumulativeStartsLocal(starting_idx, ends) == starting_idx

CumulativeStarts(starting_idx, ends) ==
    [i \in 1..Len(starting_idx) |->
        IF i = 1 THEN starting_idx[1] ELSE ends[i - 1] + starting_idx[i]]

IdsForUnpacking(starts, ends) == [i \in 1..Len(starts) |-> ends[i] - starts[i]]

\* starting_idx[0], ending_ids[0] and ending_ids[i] for i < len(starting_idx)
\* must exist, otherwise the list indexing raises IndexError
OffsetsOk(starting_idx, ending_ids) ==
    /\ Len(starting_idx) >= 1
    /\ Len(ending_ids) >= Len(starting_idx)

\* torch.cat([x[start:end].reshape(1, -1) for start, end in zip(starts, ends)], dim=-1)
SliceRanges(x, starts, ends) ==
    ConcatAll([i \in 1..Len(starts) |-> PySlice(x, starts[i], ends[i])])

\* ------------------------------------------------------ calls of the host
\* A call is what the host scheduler and the multimodal input channel pass to
\* XttsGPT.forward, together with the pipeline layout of the deployment.  The
\* fields cond and audio record how the scheduler built the packed batch
\* (request i = cond[i] placeholder tokens followed by audio[i]); the program
\* never reads them.
Bool(b) == [kind |-> "bool", vals |-> <<b>>]
FlagTensor(vals) == [kind |-> "tensor", vals |-> vals]
FlagForms ==
    {Bool(b) : b \in BOOLEAN}
        \cup {FlagTensor(<<b>>) : b \in BOOLEAN}
        \cup {FlagTensor(<<b1, b2>>) : b1 \in BOOLEAN, b2 \in BOOLEAN}

NoBundle == [kind |-> "none", shape |-> <<>>, lens |-> <<>>]
ListBundle(lens) == [kind |-> "list", shape |-> <<>>, lens |-> lens]
TensorBundle(shape) == [kind |-> "tensor", shape |-> shape, lens |-> <<>>]
\* one request's conditioning as one tensor: (L, H), or (1, L, H) as stacked by the host
SingleBundles(L, H) == {TensorBundle(<<L, H>>), TensorBundle(<<1, L, H>>)}

\* input_processor_for_xtts2_gpt: [1] * audio.shape[0] placeholders, then the
\* start token (priming) or the prompt's audio tokens (logits-only)
Pack(cond, audio) ==
    ConcatAll([i \in 1..Len(cond) |-> Repeat(PAD_FILLER_ID, cond[i]) \o audio[i]])
\* positions of a prefill batch: the index of each token in its own request
PackPositions(cond, audio) ==
    ConcatAll([i \in 1..Len(cond) |-> [k \in 1..(cond[i] + Len(audio[i])) |-> k - 1]])
SeqLens(cond, audio) == [i \in 1..Len(cond) |-> cond[i] + Len(audio[i])]

MkCall(family, ids, pos, bundle, H, seq_lens, npt, flag, stage_ends, collector, cond, audio) ==
    [family |-> family, input_ids |-> ids, position_ids |-> pos, cond_latents |-> bundle,
     hidden_dim |-> H, seq_lens |-> seq_lens, num_prefill_tokens |-> npt, flag |-> flag,
     stage_ends |-> stage_ends, has_collector |-> collector, cond |-> cond, audio |-> audio]

OneStage == <<NumLayers>>

\* audio tokens of request i: distinct ordinary codes, or sentinel values only
AudioOf(fill, i, n) ==
    [k \in 1..n |-> IF fill = "codes" THEN 10 * i + k + 1
                    ELSE IF k = 1 THEN START_AUDIO_TOKEN_ID ELSE PAD_FILLER_ID]
Fills == {"codes", "sentinel"}

\* a prefill call built from a layout, with the conditioning bundle given
Prefill(family, cond, audio, bundle, H, npt, flag) ==
    MkCall(family, Pack(cond, audio), PackPositions(cond, audio), bundle, H,
           SeqLens(cond, audio), npt, flag, OneStage, FALSE, cond, audio)

\* a layout gives every request its conditioning length and its number of audio
\* tokens; a scheduled request has at least one token
Layouts ==
    {l \in UNION {[1..n -> (0..MaxCond)] \X [1..n -> (0..MaxAudio)] : n \in 1..MaxReq} :
        \A i \in 1..Len(l[1]) : l[1][i] + l[2][i] >= 1}

\* logits-only calls: the flag set, every request's audio tokens after its
\* placeholders; the conditioning as a list, or as one tensor for one request
LogitsList(l, f) ==
    Prefill("logits", l[1], [i \in 1..Len(l[1]) |-> AudioOf(f, i, l[2][i])],
            ListBundle(l[1]), 2, SumSeq(l[1]) + SumSeq(l[2]), Bool(TRUE))
LogitsSingle(l, f, b, H, profiling) ==
    Prefill("logits", l[1], <<AudioOf(f, 1, l[2][1])>>, b, H,
            IF profiling THEN l[1][1] ELSE l[1][1] + l[2][1], Bool(TRUE))

\* priming calls: every request is its placeholders and the start token
CondLayouts == UNION {[1..n -> (0..MaxCond)] : n \in 1..MaxReq}
PrimingCall(c, b, H, profiling) ==
    Prefill("priming", c, [i \in 1..Len(c) |-> <<START_AUDIO_TOKEN_ID>>], b, H,
            IF profiling THEN SumSeq(c) ELSE SumSeq(c) + Len(c), Bool(FALSE))

\* decode calls: one new token per request, its position supplied by the host,
\* no multimodal data
TokenValues == {PAD_FILLER_ID, START_AUDIO_TOKEN_ID, 7}
DecodeCall(t, p) ==
    MkCall("decode", t, p, NoBundle, 2, [i \in 1..Len(t) |-> p[i] + 1], 0, Bool(FALSE),
           OneStage, FALSE, [i \in 1..Len(t) |-> 0], [i \in 1..Len(t) |-> <<t[i]>>])

\* one request with any audio tokens and any form of the flag
TokenSeqs == UNION {[1..n -> TokenValues] : n \in 0..MaxAudio}
FlagCall(c, a, f) == Prefill("flags", <<c>>, <<a>>, ListBundle(<<c>>), 2, c + Len(a), f)

\* logits-only calls whose metadata does not fit the packed batch
Mismatches == {"extra_token", "missing_token", "cond_exceeds", "fewer_conds", "fewer_seq_lens"}
Mismatch(kind, base) ==
    CASE kind = "extra_token" ->
            [base EXCEPT !.family = kind,
                         !.input_ids = Append(@, 99),
                         !.position_ids = Append(@, 0)]
      [] kind = "missing_token" ->
            [base EXCEPT !.family = kind,
                         !.input_ids = ButLast(@),
                         !.position_ids = ButLast(@)]
      [] kind = "cond_exceeds" ->
            [base EXCEPT !.family = kind,
                         !.cond_latents = ListBundle([base.cond EXCEPT ![1] = base.seq_lens[1] + 1])]
      [] kind = "fewer_conds" ->
            [base EXCEPT !.family = kind,
                         !.cond_latents = ListBundle(ButLast(base.cond))]
      [] kind = "fewer_seq_lens" ->
            [base EXCEPT !.family = kind,
                         !.seq_lens = ButLast(@)]

\* pipeline deployments: the layers cut into contiguous non-empty stages
RECURSIVE SortedSeq(_)
SortedSeq(S) ==
    IF S = {} THEN <<>>
    ELSE LET m == CHOOSE x \in S : \A y \in S : x <= y
         IN  <<m>> \o SortedSeq(S \ {m})
StageLayouts == {SortedSeq(S \cup {NumLayers}) : S \in SUBSET (1..(NumLayers - 1))}
Deployed(base, e, h) ==
    [base EXCEPT !.family = "pipeline", !.stage_ends = e, !.has_collector = h]
PipelineBases ==
    {PrimingCall(<<1>>, ListBundle(<<1>>), 2, FALSE),
     LogitsList(<<<<1>>, <<MaxAudio>>>>, "codes"),
     DecodeCall(<<7>>, <<1>>)}

\* the calls a behaviour may start from
IsCall(c) ==
    \/ \E l \in Layouts, f \in Fills : c = LogitsList(l, f)
    \/ \E l \in {x \in Layouts : Len(x[1]) = 1}, f \in Fills, H \in HiddenDims, pr \in BOOLEAN :
          \E b \in SingleBundles(l[1][1], H) : c = LogitsSingle(l, f, b, H, pr)
    \/ \E cl \in CondLayouts, pr \in BOOLEAN : c = PrimingCall(cl, ListBundle(cl), 2, pr)
    \/ \E L \in 0..MaxCond, H \in HiddenDims, pr \in BOOLEAN :
          \E b \in SingleBundles(L, H) \cup {NoBundle} : c = PrimingCall(<<L>>, b, H, pr)
    \/ \E n \in 1..MaxReq : \E t \in [1..n -> TokenValues], p \in [1..n -> 1..MaxAudio] :
          c = DecodeCall(t, p)
    \/ \E x \in {y \in (0..MaxCond) \X TokenSeqs : y[1] + Len(y[2]) >= 1}, f \in FlagForms :
          c = FlagCall(x[1], x[2], f)
    \/ \E l \in Layouts, kind \in Mismatches : c = Mismatch(kind, LogitsList(l, "codes"))
    \/ \E base \in PipelineBases, e \in StageLayouts, h \in BOOLEAN : c = Deployed(base, e, h)

\* ----------------------------------------------------------- program state
VARIABLES
    call,                  \* the arguments of this forward call and the pipeline layout
    pc,                    \* position of the running stage in the call
    rank,                  \* pipeline stage now running (1 = first rank)
    is_first_iteration,    \* XttsGPT.forward, line 291
    is_logits_only_mode,   \* XttsGPT.forward, line 295
    phase,                 \* branch GPT2Model.forward took at lines 407-444
    input_ids,             \* GPT2Model.forward local
    position_ids,          \* GPT2Model.forward local
    cumulative_starts,     \* offset table
    cumulative_ends,
    ids_for_unpacking,
    hidden_states,         \* [is_list, parts, ops]: tensor(s) and the modules applied so far
    layer,                 \* loop index i of the layer loop
    intermediate_tensors,  \* activation received from the previous stage
    assemblies,            \* number of embedding assemblies performed in this call
    returned,              \* what GPT2Model.forward returned on each stage so far
    collected,             \* what the hidden-state collector hook received
    logits,                \* input of the vocabulary head
    error,                 \* exception raised by the call, "" if none
    weights,               \* load_weights: the (name, tensor) pairs of the weight source
    weight_index,          \* number of pairs the loop has consumed
    loaded_names,          \* load_weights local
    bound,                 \* tensor bound to each declared parameter, NoTensor if none
    load_pc,               \* position in load_weights
    missing                \* the set named by the missing-weights error

vars == <<call, pc, rank, is_first_iteration, is_logits_only_mode, phase, input_ids,
          position_ids, cumulative_starts, cumulative_ends, ids_for_unpacking,
          hidden_states, layer, intermediate_tensors, assemblies, returned,
          collected, logits, error, weights, weight_index, loaded_names, bound, load_pc, missing>>
load_vars == <<weights, weight_index, loaded_names, bound, load_pc, missing>>

Hidden(parts, is_list, ops) == [is_list |-> is_list, parts |-> parts, ops |-> ops]
NoHidden == Hidden(<<>>, FALSE, <<>>)

\* ------------------------------------------------------- pipeline topology
\* make_layers: stage r owns the contiguous layers start_layer..end_layer-1
NumStages == Len(call.stage_ends)
StartLayer(r) == IF r = 1 THEN 0 ELSE call.stage_ends[r - 1]
EndLayer(r) == call.stage_ends[r]
\* every stage taking itself for the first rank
IsFirstRankAlways == TRUE
IsFirstRank == rank = 1
IsLastRank == rank = NumStages

\* ---------------------------------------------------- conditioning bundle
\* cond_latents is None, one tensor or a list of 2-D tensors, one per request
IsList(b) == b.kind = "list"
CondTensor(req, shape) ==
    Tensor(shape, [k \in 1..NumRows(shape) |-> <<"cond", req, k>>])
CondList(b, H) == [i \in 1..Len(b.lens) |-> CondTensor(i, <<b.lens[i], H>>)]

\* --------------------------------------------------------------- actions
Raise(what) ==
    /\ pc' = "raised"
    /\ error' = what

\* XttsGPT.forward: classify the call, then call self.gpt
XttsForward ==
    /\ pc = "forward"
    /\ is_first_iteration' = IsFirstIteration(call.input_ids)
    /\ is_logits_only_mode' = check_is_logits_only_mode(call.flag)
    /\ input_ids' = Tensor(<<Len(call.input_ids)>>, call.input_ids)
    /\ position_ids' = Tensor(<<Len(call.position_ids)>>, call.position_ids)
    /\ pc' = IF IsFirstRank THEN "slice" ELSE "receive"
    /\ UNCHANGED <<load_vars, call, rank, phase, cumulative_starts, cumulative_ends, ids_for_unpacking,
                   hidden_states, layer, intermediate_tensors, assemblies, returned,
                   collected, logits, error>>

\* the branch GPT2Model.forward takes at lines 407-444
Phase(first, logits_only) ==
    IF first /\ ~logits_only THEN "PRIMING"
    ELSE IF logits_only THEN "LOGITS_ONLY"
    ELSE "INCREMENTAL"

\* offset of the audio tokens for one conditioning tensor: input_embeds.shape[1]
SingleOffset(shape) == shape[2]

\* GPT2Model.forward lines 405-444: select the ids and positions to embed
SliceInputs ==
    /\ pc = "slice"
    /\ phase' = Phase(is_first_iteration, is_logits_only_mode)
    /\ LET ph == Phase(is_first_iteration, is_logits_only_mode)
           b == call.cond_latents
       IN  CASE ph = "PRIMING" ->
                  /\ input_ids' = Tensor(<<1, 1>>, <<Last(input_ids.data)>>)
                  /\ pc' = "embed"
                  /\ UNCHANGED <<position_ids, cumulative_starts, cumulative_ends,
                                 ids_for_unpacking, error>>
             [] ph = "LOGITS_ONLY" /\ IsList(b) ->
                  IF ~OffsetsOk(b.lens, call.seq_lens)
                  THEN /\ Raise("IndexError")
                       /\ UNCHANGED <<input_ids, position_ids, cumulative_starts,
                                      cumulative_ends, ids_for_unpacking>>
                  ELSE LET ends == CumulativeEnds(call.seq_lens, Len(b.lens))
                           starts == CumulativeStarts(b.lens, ends)
                           ids == SliceRanges(input_ids.data, starts, ends)
                           pos == SliceRanges(position_ids.data, starts, ends)
                       IN  /\ cumulative_starts' = starts
                           /\ cumulative_ends' = ends
                           /\ ids_for_unpacking' = IdsForUnpacking(starts, ends)
                           /\ input_ids' = Tensor(<<1, Len(ids)>>, ids)
                           /\ position_ids' = Tensor(<<Len(pos)>>, pos)
                           /\ pc' = "embed"
                           /\ UNCHANGED error
             [] ph = "LOGITS_ONLY" /\ b.kind = "tensor" ->
                  LET off == SingleOffset(b.shape)
                      ids == PySlice(input_ids.data, off, Len(input_ids.data))
                      pos == PySlice(position_ids.data, off, Len(position_ids.data))
                  IN  /\ input_ids' = Tensor(<<1, Len(ids)>>, ids)
                      /\ position_ids' = Tensor(<<Len(pos)>>, pos)
                      /\ pc' = "embed"
                      /\ UNCHANGED <<cumulative_starts, cumulative_ends,
                                     ids_for_unpacking, error>>
             [] ph = "LOGITS_ONLY" /\ b.kind = "none" ->
                  /\ Raise("AttributeError")
                  /\ UNCHANGED <<input_ids, position_ids, cumulative_starts,
                                 cumulative_ends, ids_for_unpacking>>
             [] OTHER ->
                  /\ pc' = "embed"
                  /\ UNCHANGED <<input_ids, position_ids, cumulative_starts,
                                 cumulative_ends, ids_for_unpacking, error>>
    /\ UNCHANGED <<load_vars, call, rank, is_first_iteration, is_logits_only_mode, hidden_states,
                   layer, intermediate_tensors, assemblies, returned, collected, logits>>

\* source of the positional embedding, lines 449-452
PositionEmbeds(first, audio, pos_ids, H) ==
    IF ~first
    THEN GetFixedEmbedding(pos_ids, H)
    ELSE WpeForward(<<ProdSeq(audio.shape), 1>>, H)
PositionEmbedsOk(first, pos_ids) == first \/ GetFixedEmbeddingOk(pos_ids)

\* GPT2Model.forward lines 446-454: token plus positional embedding
Embed ==
    /\ pc = "embed"
    /\ LET H == call.hidden_dim
           audio_inputs_embeds == Squeeze0(Wte(input_ids, H))
       IN  IF ~PositionEmbedsOk(is_first_iteration, position_ids)
           THEN /\ Raise("ValueError")
                /\ UNCHANGED hidden_states
           ELSE /\ hidden_states' =
                      Hidden(<<AddEmbeds(audio_inputs_embeds,
                                         PositionEmbeds(is_first_iteration,
                                                        audio_inputs_embeds,
                                                        position_ids, H))>>,
                             FALSE, <<>>)
                /\ pc' = IF IsList(call.cond_latents) /\ is_logits_only_mode THEN "split"
                         ELSE IF is_first_iteration \/ is_logits_only_mode THEN "concat"
                         ELSE "flatten"
                /\ UNCHANGED error
    /\ UNCHANGED <<load_vars, call, rank, is_first_iteration, is_logits_only_mode, phase, input_ids,
                   position_ids, cumulative_starts, cumulative_ends, ids_for_unpacking,
                   layer, intermediate_tensors, assemblies, returned, collected, logits>>

\* GPT2Model.forward lines 456-457: hidden_states.split(ids_for_unpacking, dim=0)
SplitPerRequest ==
    /\ pc = "split"
    /\ LET t == hidden_states.parts[1]
       IN  IF ~SplitOk(t, ids_for_unpacking)
           THEN /\ Raise("RuntimeError")
                /\ UNCHANGED hidden_states
           ELSE /\ hidden_states' = Hidden(SplitSizes(t, ids_for_unpacking), TRUE, <<>>)
                /\ pc' = "concat"
                /\ UNCHANGED error
    /\ UNCHANGED <<load_vars, call, rank, is_first_iteration, is_logits_only_mode, phase, input_ids,
                   position_ids, cumulative_starts, cumulative_ends, ids_for_unpacking,
                   layer, intermediate_tensors, assemblies, returned, collected, logits>>

\* the comparison made against the row count less the reserved row
DropsTrailingRowOffByOne(b, rows, num_prefill_tokens) ==
    ~IsList(b) /\ rows - 1 = num_prefill_tokens

\* lines 466-470: the trailing conditioning row is dropped for one tensor whose
\* row count equals attn_metadata.num_prefill_tokens
DropsTrailingRow(b, rows, num_prefill_tokens) == ~IsList(b) /\ rows = num_prefill_tokens
DropLastRow(t) ==
    IF t.shape[1] = 0 THEN t
    ELSE Tensor(<<t.shape[1] - 1>> \o Tail(t.shape), ButLast(t.data))

\* every conditioning tensor first, the token rows of all requests after them
InterleaveCondsFirst(conds, hs) ==
    conds \o (IF hs.is_list THEN hs.parts ELSE Repeat(hs.parts[1], Len(conds)))

\* line 476: zip(input_embeds, hidden_states or [hidden_states] * len(input_embeds))
\* flattened pair by pair
Interleave(conds, hs) ==
    LET seconds == IF hs.is_list THEN hs.parts ELSE Repeat(hs.parts[1], Len(conds))
        n == Min(Len(conds), Len(seconds))
    IN  [k \in 1..(2 * n) |-> IF k % 2 = 1 THEN conds[(k + 1) \div 2] ELSE seconds[k \div 2]]

\* GPT2Model.forward lines 459-481: put the conditioning in front of the token rows
ConcatConditioning ==
    /\ pc = "concat"
    /\ LET b == call.cond_latents
           H == call.hidden_dim
       IN  CASE b.kind = "none" ->
                  /\ Raise("AttributeError")
                  /\ UNCHANGED hidden_states
             [] b.kind = "list" ->
                  LET ts == Interleave([i \in 1..Len(b.lens) |-> View2D(CondList(b, H)[i])],
                                       hidden_states)
                  IN  IF ~CatOk(ts)
                      THEN /\ Raise("RuntimeError")
                           /\ UNCHANGED hidden_states
                      ELSE /\ hidden_states' = Hidden(<<Cat(ts)>>, FALSE, <<>>)
                           /\ pc' = "flatten"
                           /\ UNCHANGED error
             [] b.kind = "tensor" ->
                  LET full == View2D(CondTensor(1, b.shape))
                      input_embeds ==
                          IF DropsTrailingRow(b, full.shape[1], call.num_prefill_tokens)
                          THEN DropLastRow(full) ELSE full
                      ts == <<input_embeds, hidden_states.parts[1]>>
                  IN  IF ~CatOk(ts)
                      THEN /\ Raise("RuntimeError")
                           /\ UNCHANGED hidden_states
                      ELSE /\ hidden_states' = Hidden(<<Cat(ts)>>, FALSE, <<>>)
                           /\ pc' = "flatten"
                           /\ UNCHANGED error
    /\ UNCHANGED <<load_vars, call, rank, is_first_iteration, is_logits_only_mode, phase, input_ids,
                   position_ids, cumulative_starts, cumulative_ends, ids_for_unpacking,
                   layer, intermediate_tensors, assemblies, returned, collected, logits>>

\* GPT2Model.forward line 484: hidden_states.view(-1, self.embed_dim)
FlattenHidden ==
    /\ pc = "flatten"
    /\ hidden_states' = Hidden(<<View2D(hidden_states.parts[1])>>, FALSE, <<>>)
    /\ assemblies' = assemblies + 1
    /\ layer' = StartLayer(rank)
    /\ pc' = "layers"
    /\ UNCHANGED <<load_vars, call, rank, is_first_iteration, is_logits_only_mode, phase, input_ids,
                   position_ids, cumulative_starts, cumulative_ends, ids_for_unpacking,
                   intermediate_tensors, returned, collected, logits, error>>

\* GPT2Model.forward lines 485-487: a later stage resumes from the received activation
ReceiveIntermediate ==
    /\ pc = "receive"
    /\ hidden_states' = intermediate_tensors
    /\ layer' = StartLayer(rank)
    /\ pc' = "layers"
    /\ UNCHANGED <<load_vars, call, rank, is_first_iteration, is_logits_only_mode, phase, input_ids,
                   position_ids, cumulative_starts, cumulative_ends, ids_for_unpacking,
                   intermediate_tensors, assemblies, returned, collected, logits, error>>

\* GPT2Model.forward lines 489-493: one iteration of the layer loop
ApplyLayer ==
    /\ pc = "layers"
    /\ layer < EndLayer(rank)
    /\ hidden_states' = [hidden_states EXCEPT !.ops = Append(@, <<"h", layer>>)]
    /\ layer' = layer + 1
    /\ UNCHANGED <<load_vars, call, pc, rank, is_first_iteration, is_logits_only_mode, phase, input_ids,
                   position_ids, cumulative_starts, cumulative_ends, ids_for_unpacking,
                   intermediate_tensors, assemblies, returned, collected, logits, error>>

\* GPT2Model.forward lines 495-496: a stage that is not the last returns the
\* activation as IntermediateTensors({"hidden_states": ...})
ReturnIntermediate ==
    /\ pc = "layers"
    /\ layer >= EndLayer(rank)
    /\ ~IsLastRank
    /\ returned' = Append(returned, [rank |-> rank, tag |-> "hidden_states",
                                     value |-> hidden_states])
    /\ pc' = "handoff"
    /\ UNCHANGED <<load_vars, call, rank, is_first_iteration, is_logits_only_mode, phase, input_ids,
                   position_ids, cumulative_starts, cumulative_ends, ids_for_unpacking,
                   hidden_states, layer, intermediate_tensors, assemblies, collected,
                   logits, error>>

\* the caller hands the returned activation to the next stage, which runs
\* XttsGPT.forward on the same batch with intermediate_tensors set
NextStage ==
    /\ pc = "handoff"
    /\ intermediate_tensors' = Last(returned).value
    /\ rank' = rank + 1
    /\ hidden_states' = NoHidden
    /\ pc' = "forward"
    /\ UNCHANGED <<load_vars, call, is_first_iteration, is_logits_only_mode, phase, input_ids,
                   position_ids, cumulative_starts, cumulative_ends, ids_for_unpacking,
                   layer, assemblies, returned, collected, logits, error>>

\* self.ln_f(hidden_states), the final layer normalization of the GPT-2 stack
LnF(h) == [h EXCEPT !.ops = Append(@, <<"ln_f", 0>>)]

\* compute_logits leaving out its normalization
HeadNormSkipped(h) == h

\* self.final_norm(hidden_states), the layer normalization in front of mel_head
HeadNorm(h) == [h EXCEPT !.ops = Append(@, <<"final_norm", 0>>)]

\* GPT2Model.forward lines 498-499: the last stage applies ln_f and returns
FinalNorm ==
    /\ pc = "layers"
    /\ layer >= EndLayer(rank)
    /\ IsLastRank
    /\ hidden_states' = LnF(hidden_states)
    /\ returned' = Append(returned, [rank |-> rank, tag |-> "final",
                                     value |-> hidden_states'])
    /\ pc' = "returned"
    /\ UNCHANGED <<load_vars, call, rank, is_first_iteration, is_logits_only_mode, phase, input_ids,
                   position_ids, cumulative_starts, cumulative_ends, ids_for_unpacking,
                   layer, intermediate_tensors, assemblies, collected, logits, error>>

\* XttsGPT.compute_logits on the hidden states XttsGPT.forward returned
ComputeLogits ==
    /\ pc = "returned"
    /\ LET normed == HeadNorm(hidden_states)
       IN  /\ hidden_states' = normed
           /\ collected' = IF call.has_collector THEN <<normed>> ELSE collected
           /\ logits' = <<normed>>
    /\ pc' = "logits"
    /\ UNCHANGED <<load_vars, call, rank, is_first_iteration, is_logits_only_mode, phase, input_ids,
                   position_ids, cumulative_starts, cumulative_ends, ids_for_unpacking,
                   layer, intermediate_tensors, assemblies, returned, error>>

\* ------------------------------------------------------------ load_weights
\* a parameter name by its dotted components, "gpt.h.0.attn.c_attn.weight" as
\* <<"gpt", "h", "0", "attn", "c_attn", "weight">>
LayerParams(i) ==
    << <<"gpt", "h", ToString(i), "ln_1", "weight">>,
       <<"gpt", "h", ToString(i), "attn", "c_attn", "weight">>,
       <<"gpt", "h", ToString(i), "attn", "c_attn", "bias">> >>
\* named_parameters(remove_duplicate=False) of the model, in declaration order
ParamNames ==
    << <<"gpt", "wte", "weight">> >>
        \o ConcatAll([k \in 1..NumLayers |-> LayerParams(k - 1)])
        \o << <<"final_norm", "weight">>, <<"mel_head", "weight">> >>
params_dict == Range(ParamNames)
\* a name of the checkpoint that the model does not declare
ForeignName == <<"text_head", "weight">>
CheckpointNames == ParamNames \o <<ForeignName>>

\* the tensor the checkpoint holds under a name: projection weights are stored
\* (in, out), the other weights and the biases as the parameter is
IsProjection(name) == \E k \in 1..Len(name) : name[k] \in {"c_attn", "c_proj", "c_fc"}
CheckpointTensor(name) ==
    IF IsProjection(name) /\ Last(name) = "weight" THEN Tensor(<<2, 6>>, <<name>>)
    ELSE IF IsProjection(name) THEN Tensor(<<6>>, <<name>>)
    ELSE Tensor(<<2>>, <<name>>)
Reverse(q) == [k \in 1..Len(q) |-> q[Len(q) + 1 - k]]
\* the weight source: any selection of the checkpoint's pairs, in either order
Supplied(S, reversed) ==
    LET idx == SortedSeq(S)
        q == [k \in 1..Len(idx) |->
                 [name |-> CheckpointNames[idx[k]],
                  tensor |-> CheckpointTensor(CheckpointNames[idx[k]])]]
    IN  IF reversed THEN Reverse(q) ELSE q

\* lines 348-350: loaded_weight.t() for the c_attn, c_proj and c_fc weights
NeedsTranspose(name) == IsProjection(name) /\ Len(name) > 1 /\ Last(name) = "weight"
Transpose(t) == IF Len(t.shape) = 2 THEN Tensor(<<t.shape[2], t.shape[1]>>, t.data) ELSE t

\* line 343: a supplied name the model does not declare is skipped
Skips(name) == name \notin params_dict

\* line 356: the declared parameters no supplied weight was bound to
MissingWeightsIgnored(declared, loaded) == {}
MissingWeights(declared, loaded) == declared \ loaded

\* lines 342-354: one iteration of the loop over the supplied weights
LoadWeight ==
    /\ load_pc = "loading"
    /\ weight_index < Len(weights)
    /\ LET name == weights[weight_index + 1].name
           tensor == weights[weight_index + 1].tensor
           loaded_weight == IF NeedsTranspose(name) THEN Transpose(tensor) ELSE tensor
       IN  IF Skips(name)
           THEN UNCHANGED <<bound, loaded_names>>
           ELSE /\ bound' = [bound EXCEPT ![name] = loaded_weight]
                /\ loaded_names' = loaded_names \cup {name}
    /\ weight_index' = weight_index + 1
    /\ UNCHANGED <<weights, load_pc, missing>>
    /\ UNCHANGED <<call, pc, rank, is_first_iteration, is_logits_only_mode, phase, input_ids,
                   position_ids, cumulative_starts, cumulative_ends, ids_for_unpacking,
                   hidden_states, layer, intermediate_tensors, assemblies, returned,
                   collected, logits, error>>

\* lines 355-358: the assertion that every declared parameter was loaded
LoadFinish ==
    /\ load_pc = "loading"
    /\ weight_index = Len(weights)
    /\ missing' = MissingWeights(params_dict, loaded_names)
    /\ load_pc' = IF missing' = {} THEN "loaded" ELSE "failed"
    /\ UNCHANGED <<weights, weight_index, loaded_names, bound>>
    /\ UNCHANGED <<call, pc, rank, is_first_iteration, is_logits_only_mode, phase, input_ids,
                   position_ids, cumulative_starts, cumulative_ends, ids_for_unpacking,
                   hidden_states, layer, intermediate_tensors, assemblies, returned,
                   collected, logits, error>>

\* the model after a complete load, as the serving calls find it
ModelLoaded ==
    /\ weights = Supplied(1..Len(ParamNames), FALSE)
    /\ weight_index = Len(weights)
    /\ loaded_names = params_dict
    /\ bound = [n \in params_dict |->
                  IF NeedsTranspose(n) THEN Transpose(CheckpointTensor(n))
                  ELSE CheckpointTensor(n)]
    /\ load_pc = "loaded"
    /\ missing = {}

Next ==
    \/ XttsForward
    \/ SliceInputs
    \/ Embed
    \/ SplitPerRequest
    \/ ConcatConditioning
    \/ FlattenHidden
    \/ ReceiveIntermediate
    \/ ApplyLayer
    \/ ReturnIntermediate
    \/ NextStage
    \/ FinalNorm
    \/ ComputeLogits

Init ==
    /\ IsCall(call)
    /\ pc = "forward"
    /\ rank = 1
    /\ is_first_iteration = FALSE
    /\ is_logits_only_mode = FALSE
    /\ phase = ""
    /\ input_ids = NoTensor
    /\ position_ids = NoTensor
    /\ cumulative_starts = <<>>
    /\ cumulative_ends = <<>>
    /\ ids_for_unpacking = <<>>
    /\ hidden_states = NoHidden
    /\ layer = 0
    /\ intermediate_tensors = NoHidden
    /\ assemblies = 0
    /\ returned = <<>>
    /\ collected = <<>>
    /\ logits = <<>>
    /\ error = ""
    /\ ModelLoaded

Spec == Init /\ [][Next]_vars

\* initialization: load_weights runs on a freshly constructed model
LoadNext ==
    \/ LoadWeight
    \/ LoadFinish

LoadInit ==
    /\ \E S \in SUBSET (1..Len(CheckpointNames)), reversed \in BOOLEAN :
          weights = Supplied(S, reversed)
    /\ weight_index = 0
    /\ loaded_names = {}
    /\ bound = [n \in params_dict |-> NoTensor]
    /\ load_pc = "loading"
    /\ missing = {}
    /\ call = DecodeCall(<<7>>, <<1>>)
    /\ pc = "unloaded"
    /\ rank = 1
    /\ is_first_iteration = FALSE
    /\ is_logits_only_mode = FALSE
    /\ phase = ""
    /\ input_ids = NoTensor
    /\ position_ids = NoTensor
    /\ cumulative_starts = <<>>
    /\ cumulative_ends = <<>>
    /\ ids_for_unpacking = <<>>
    /\ hidden_states = NoHidden
    /\ layer = 0
    /\ intermediate_tensors = NoHidden
    /\ assemblies = 0
    /\ returned = <<>>
    /\ collected = <<>>
    /\ logits = <<>>
    /\ error = ""

LoadSpec == LoadInit /\ [][LoadNext]_vars

\* ================================================================ properties


\* the stage of the first rank has selected the ids to embed (lines 405-444 done)
Sliced == rank = 1 /\ pc \in {"embed", "split", "concat", "flatten", "layers", "returned", "logits", "handoff"}
\* the first rank has assembled its hidden states (line 484 done)
Assembled == rank = 1 /\ pc \in {"layers", "returned", "logits", "handoff"}

\* the call carries one conditioning tensor per entry of seq_lens, each no longer
\* than its request
ListMetadataFits ==
    /\ call.cond_latents.kind = "list"
    /\ Len(call.cond_latents.lens) = Len(call.seq_lens)
    /\ Len(call.seq_lens) >= 1
    /\ \A i \in 1..Len(call.seq_lens) : call.seq_lens[i] >= call.cond_latents.lens[i]

\* the packed batch is the concatenation, per request, of the request's
\* placeholders and audio tokens, with one conditioning tensor per request
PackedPerRequest ==
    /\ call.cond_latents = ListBundle(call.cond)
    /\ call.input_ids = Pack(call.cond, call.audio)
    /\ call.position_ids = PackPositions(call.cond, call.audio)
    /\ call.seq_lens = SeqLens(call.cond, call.audio)

\* C1: in the LOGITS_ONLY phase with N conditioning tensors of lengths c and
\* seq_lens s, each s_i >= c_i, the offset table is start_1 = c_1, end_1 = s_1,
\* start_i = end_{i-1} + c_i, end_i = end_{i-1} + s_i; so start_i <= end_i,
\* end_i - start_i = s_i - c_i and the range lengths sum to sum(s) - sum(c);
\* c = [3, 2], s = [5, 4] gives (3, 5) and (7, 9).
C1_OffsetTable ==
    (Sliced /\ phase = "LOGITS_ONLY" /\ ListMetadataFits) =>
        LET c == call.cond_latents.lens
            s == call.seq_lens
            N == Len(c)
        IN  /\ Len(cumulative_starts) = N
            /\ Len(cumulative_ends) = N
            /\ cumulative_starts[1] = c[1]
            /\ cumulative_ends[1] = s[1]
            /\ \A i \in 2..N : /\ cumulative_starts[i] = cumulative_ends[i - 1] + c[i]
                               /\ cumulative_ends[i] = cumulative_ends[i - 1] + s[i]
            /\ \A i \in 1..N : /\ cumulative_starts[i] <= cumulative_ends[i]
                               /\ cumulative_ends[i] - cumulative_starts[i] = s[i] - c[i]
                               /\ cumulative_ends[i] = SumSeq(SubSeq(s, 1, i))
            /\ SumSeq([i \in 1..N |-> cumulative_ends[i] - cumulative_starts[i]])
                  = SumSeq(s) - SumSeq(c)
            /\ (c = <<3, 2>> /\ s = <<5, 4>>) =>
                  (cumulative_starts = <<3, 7>> /\ cumulative_ends = <<5, 9>>)

C1_Witness ==
    /\ Sliced /\ phase = "LOGITS_ONLY" /\ ListMetadataFits
    /\ call.cond_latents.lens = <<3, 2>> /\ call.seq_lens = <<5, 4>>
    /\ cumulative_starts = <<3, 7>> /\ cumulative_ends = <<5, 9>>

\* C2: for a packed batch built per request from c_i placeholders followed by the
\* request's audio tokens, the LOGITS_ONLY list path slices token_ids[start_i:end_i]
\* and position_ids[start_i:end_i] to exactly request i's audio tokens and their
\* positions, in order, for every request.
C2_RoundTrip ==
    (Sliced /\ phase = "LOGITS_ONLY" /\ PackedPerRequest) =>
        LET N == Len(call.cond)
        IN  /\ \A i \in 1..N :
                 /\ PySlice(call.input_ids, cumulative_starts[i], cumulative_ends[i])
                       = call.audio[i]
                 /\ PySlice(call.position_ids, cumulative_starts[i], cumulative_ends[i])
                       = [k \in 1..Len(call.audio[i]) |-> call.cond[i] + k - 1]
            /\ input_ids.data = ConcatAll(call.audio)
            /\ Len(position_ids.data) = Len(input_ids.data)
            /\ ids_for_unpacking = [i \in 1..N |-> Len(call.audio[i])]

C2_Witness ==
    /\ Sliced /\ phase = "LOGITS_ONLY" /\ PackedPerRequest
    /\ Len(call.cond) = 2
    /\ call.cond[1] > 0 /\ call.cond[2] > 0
    /\ call.audio = <<<<12, 13>>, <<22>>>>
    /\ input_ids.data = <<12, 13, 22>>

\* a row without the position it was embedded with
RowKey(r) == IF r[1] = "cond" THEN r ELSE <<"tok", r[2], 0>>
\* rows of request i in the packed layout: its conditioning, then its audio tokens
RequestRows(i) ==
    [k \in 1..call.cond[i] |-> <<"cond", i, k>>]
        \o [k \in 1..Len(call.audio[i]) |-> <<"tok", call.audio[i][k], 0>>]

FlagTruthy(flag) == TRUE \in Range(flag.vals)
ExpectedPhase ==
    IF FlagTruthy(call.flag) THEN "LOGITS_ONLY"
    ELSE IF Len(call.input_ids) > 1 /\ Range(call.input_ids) \subseteq {1, 1024} THEN "PRIMING"
    ELSE "INCREMENTAL"

TokRows(t) == SelectSeq(t.data, LAMBDA r : r[1] = "tok")
CondRows(i, n) == [k \in 1..n |-> <<"cond", i, k>>]
\* the one row PRIMING embeds: the last token of the packed input at position 0
PrimingRow == <<"tok", Last(call.input_ids), 0>>
\* rows of the conditioning bundle after x.view(-1, x.shape[-1])
BundleRows == IF call.cond_latents.kind = "tensor" THEN NumRows(call.cond_latents.shape)
              ELSE SumSeq(call.cond_latents.lens)
\* rows of one conditioning tensor that PRIMING keeps
KeptRows ==
    IF BundleRows = call.num_prefill_tokens /\ BundleRows > 0 THEN BundleRows - 1 ELSE BundleRows

\* C5 (as amended): in the PRIMING phase the token+positional row is computed from
\* the last token of the packed input only; for one conditioning tensor the
\* result is the conditioning rows followed by that row, the trailing
\* conditioning row being dropped iff the tensor's row count equals
\* num_prefill_tokens; for a list of N conditioning tensors no row is dropped and
\* the result is every tensor's rows each followed by a copy of that row.
C5_PrimingLayout ==
    (Assembled /\ phase = "PRIMING") =>
        LET t == hidden_states.parts[1]
            b == call.cond_latents
        IN  /\ b.kind \in {"tensor", "list"}
            /\ t.shape = <<Len(t.data), call.hidden_dim>>
            /\ b.kind = "tensor" => t.data = CondRows(1, KeptRows) \o <<PrimingRow>>
            /\ b.kind = "list" =>
                  t.data = ConcatAll([i \in 1..Len(b.lens) |->
                                         CondRows(i, b.lens[i]) \o <<PrimingRow>>])

C5_Witness ==
    /\ Assembled /\ phase = "PRIMING"
    /\ call.cond_latents = ListBundle(<<2, 1>>)
    /\ call.num_prefill_tokens = 3
    /\ hidden_states.parts[1].data
          = << <<"cond", 1, 1>>, <<"cond", 1, 2>>, <<"tok", 1024, 0>>,
               <<"cond", 2, 1>>, <<"tok", 1024, 0>> >>

\* C5 as stated: all conditioning rows first, then exactly one token row, for one
\* tensor and for a list alike
C5_AllConditioningThenOneRow ==
    (Assembled /\ phase = "PRIMING") =>
        LET t == hidden_states.parts[1]
            b == call.cond_latents
            kept == IF b.kind = "tensor" THEN KeptRows ELSE BundleRows
        IN  /\ Len(t.data) = kept + 1
            /\ \A k \in 1..kept : t.data[k][1] = "cond"
            /\ t.data[kept + 1] = PrimingRow

\* the sequence-of-one-tensor path on the arguments of this call: the model's
\* list path applied to a list holding the call's one conditioning tensor
ListOfOne ==
    LET L == BundleRows
        H == call.hidden_dim
        conds == <<View2D(CondTensor(1, <<L, H>>))>>
        ends == CumulativeEnds(call.seq_lens, 1)
        starts == CumulativeStarts(<<L>>, ends)
        ids == IF phase = "PRIMING" THEN <<Last(call.input_ids)>>
               ELSE SliceRanges(call.input_ids, starts, ends)
        pos == IF phase = "PRIMING" THEN call.position_ids
               ELSE SliceRanges(call.position_ids, starts, ends)
        pos_t == Tensor(<<Len(pos)>>, pos)
        audio == Squeeze0(Wte(Tensor(<<1, Len(ids)>>, ids), H))
        pos_ok == PositionEmbedsOk(is_first_iteration, pos_t)
        summed == AddEmbeds(audio, PositionEmbeds(is_first_iteration, audio, pos_t, H))
        split_ok == phase = "PRIMING" \/ SplitOk(summed, IdsForUnpacking(starts, ends))
        hs == IF phase = "PRIMING" THEN Hidden(<<summed>>, FALSE, <<>>)
              ELSE Hidden(SplitSizes(summed, IdsForUnpacking(starts, ends)), TRUE, <<>>)
        ok == pos_ok /\ split_ok /\ CatOk(Interleave(conds, hs))
    IN  [ok |-> ok,
         offset |-> starts[1],
         rows |-> IF ok THEN View2D(Cat(Interleave(conds, hs))).data ELSE <<>>]

\* C6 as stated: for one request, in PRIMING and in LOGITS_ONLY, one 2-D
\* conditioning tensor (conditioning_length, hidden_dim) and the list holding
\* that tensor give the same audio-token slice offset (the conditioning row
\* count), the same number of assembled rows and the same row order.
C6_SingleMatchesListOfOne ==
    (/\ rank = 1
     /\ phase \in {"PRIMING", "LOGITS_ONLY"}
     /\ call.cond_latents.kind = "tensor"
     /\ Len(call.cond_latents.shape) = 2
     /\ Len(call.seq_lens) = 1) =>
        /\ (Sliced /\ phase = "LOGITS_ONLY") =>
              /\ SingleOffset(call.cond_latents.shape) = ListOfOne.offset
              /\ ListOfOne.offset = BundleRows
        /\ Assembled => (ListOfOne.ok /\ hidden_states.parts[1].data = ListOfOne.rows)
        /\ pc = "raised" => ~ListOfOne.ok

\* C7 as stated: in LOGITS_ONLY and in INCREMENTAL every assembled audio-token
\* row has the positional embedding of its own externally supplied position
\* index (the sliced one in LOGITS_ONLY), whatever the tokens are.
C7_SuppliedPositions ==
    (Assembled /\ phase \in {"LOGITS_ONLY", "INCREMENTAL"}) =>
        TokRows(hidden_states.parts[1])
            = [k \in 1..Len(input_ids.data) |->
                  <<"tok", input_ids.data[k], position_ids.data[k]>>]

\* the conditioning list does not fit the supplied metadata
MetadataMismatch ==
    LET c == call.cond_latents.lens
        s == call.seq_lens
    IN  /\ call.cond_latents.kind = "list"
        /\ \/ Len(c) # Len(s)
           \/ \E i \in 1..Min(Len(c), Len(s)) : c[i] > s[i]
           \/ SumSeq(s) # Len(call.input_ids)

\* C8 as stated: a LOGITS_ONLY call whose conditioning list does not fit the
\* metadata (some c_i > seq_lens[i], sum(seq_lens) # len(token_ids), or a
\* different number of conditioning tensors and seq_lens entries) ends in an
\* error and never returns assembled hidden states.
C8_MismatchIsFatal ==
    (phase = "LOGITS_ONLY" /\ MetadataMismatch) =>
        pc \notin {"flatten", "layers", "handoff", "returned", "logits"}

\* the layers 0..n-1 applied in increasing order
LayerOps(n) == [k \in 1..n |-> <<"h", k - 1>>]
IsNorm(op) == op[1] \in {"ln_f", "final_norm"}

\* C9: in a pipeline of K >= 1 stages running one forward call, the embedding
\* assembly is performed exactly once, by the first stage only; a later stage
\* starts its first owned layer from the received hidden_states activation,
\* unmodified; each stage applies exactly its layers start_layer..end_layer-1 in
\* increasing order; every stage but the last returns the un-normalized
\* activation tagged hidden_states; only the last stage applies the final
\* normalization and returns hidden states.
C9_PipelineHandOff ==
    /\ assemblies <= 1
    /\ (rank > 1 \/ pc \in {"layers", "handoff", "returned", "logits"}) => assemblies = 1
    /\ (rank > 1 /\ pc \in {"forward", "receive"}) =>
          /\ intermediate_tensors = returned[rank - 1].value
          /\ hidden_states = NoHidden
    /\ (rank > 1 /\ pc = "layers" /\ layer = StartLayer(rank)) =>
          hidden_states = returned[rank - 1].value
    /\ pc = "layers" =>
          /\ StartLayer(rank) <= layer /\ layer <= EndLayer(rank)
          /\ hidden_states.ops = LayerOps(layer)
    /\ Len(returned) \in {rank - 1, rank}
    /\ \A r \in 1..Len(returned) :
          /\ returned[r].rank = r
          /\ returned[r].value.parts = returned[1].value.parts
          /\ r < NumStages =>
                /\ returned[r].tag = "hidden_states"
                /\ returned[r].value.ops = LayerOps(EndLayer(r))
          /\ r = NumStages =>
                /\ returned[r].tag = "final"
                /\ returned[r].value.ops = LayerOps(NumLayers) \o << <<"ln_f", 0>> >>
    /\ pc \in {"returned", "logits"} => (rank = NumStages /\ Len(returned) = NumStages)

C9_Witness ==
    /\ NumStages = 2
    /\ rank = 2
    /\ pc = "returned"
    /\ assemblies = 1
    /\ returned[1].tag = "hidden_states"
    /\ returned[1].value.ops = LayerOps(1)
    /\ returned[2].tag = "final"
    /\ Len(returned[2].value.parts[1].data) >= 2

\* the layer normalizations on the path from the assembler to the vocabulary head
NormsOf(h) == SelectSeq(h.ops, IsNorm)

\* C10 (as amended): for a call that runs XttsGPT.forward on the last pipeline
\* stage and then XttsGPT.compute_logits on its result, the hidden states passed
\* to the vocabulary head (and to the collector hook, when present) have passed
\* through two layer normalizations after the last layer: GPT2Model.ln_f once,
\* in forward, then XttsGPT.final_norm once, in compute_logits.
C10_TwoNormalizations ==
    /\ pc = "returned" => NormsOf(hidden_states) = << <<"ln_f", 0>> >>
    /\ pc = "logits" =>
          /\ Len(logits) = 1
          /\ logits[1].ops = LayerOps(NumLayers) \o << <<"ln_f", 0>>, <<"final_norm", 0>> >>
          /\ logits[1].parts = returned[NumStages].value.parts
          /\ collected = IF call.has_collector THEN logits ELSE <<>>
    /\ pc # "logits" => (logits = <<>> /\ collected = <<>>)

C10_Witness ==
    /\ pc = "logits"
    /\ call.has_collector
    /\ NumStages = 2
    /\ NormsOf(logits[1]) = << <<"ln_f", 0>>, <<"final_norm", 0>> >>
    /\ collected = logits

\* C10 as stated: the hidden states passed to the vocabulary head have been
\* through a final layer normalization exactly one time
C10_NormalizedExactlyOnce ==
    pc = "logits" => Len(NormsOf(logits[1])) = 1

\* the names the weight source supplied
SuppliedNames == {weights[k].name : k \in 1..Len(weights)}
LoadReturned == load_pc \in {"loaded", "failed"}

\* C11: load_weights succeeds iff the supplied weight names cover every declared
\* parameter name; supplied names that match no declared parameter are ignored
\* and bind nothing; when it fails, the missing-weights error names exactly the
\* declared parameters that were not supplied, so omitting one parameter raises
\* the error naming exactly that parameter.
C11_WeightBindingCompleteness ==
    LoadReturned =>
        /\ (load_pc = "loaded") = (params_dict \subseteq SuppliedNames)
        /\ load_pc = "loaded" => missing = {}
        /\ load_pc = "failed" => missing = params_dict \ SuppliedNames
        /\ \A n \in params_dict : (bound[n] # NoTensor) = (n \in SuppliedNames)
        /\ \A n \in params_dict : bound[n] # NoTensor => bound[n].data = <<n>>
        /\ DOMAIN bound = params_dict
        /\ \A n \in params_dict :
              (SuppliedNames \cap params_dict = params_dict \ {n}) =>
                  (load_pc = "failed" /\ missing = {n})

C11_Witness ==
    /\ load_pc = "failed"
    /\ ForeignName \in SuppliedNames
    /\ SuppliedNames \cap params_dict = params_dict \ {<<"final_norm", "weight">>}
    /\ missing = {<<"final_norm", "weight">>}

\* a decode call: the flag false, one newly generated token per request, its
\* position supplied by the host, no conditioning
IsDecode == call.family = "decode"

\* C12 as stated: a decode call with the flag false in which each of N >= 1
\* requests contributes one new token is handled as INCREMENTAL for every N and
\* every token value: no error, all N tokens embedded, each with its own
\* supplied position, no conditioning rows, exactly N assembled rows.
C12_DecodeIsIncremental ==
    IsDecode =>
        /\ pc # "raised"
        /\ (rank = 1 /\ pc \notin {"forward", "slice"}) => phase = "INCREMENTAL"
        /\ Assembled =>
              LET t == hidden_states.parts[1]
              IN  /\ t.shape = <<Len(call.input_ids), call.hidden_dim>>
                  /\ t.data = [k \in 1..Len(call.input_ids) |->
                                  <<"tok", call.input_ids[k], call.position_ids[k]>>]

====
